---- MODULE Spec2Model ----
(***************************************************************************)
(* A model of src/dbg_lin.c, the Linux hidraw transport of edbg:           *)
(*   - parse_hid_report_desc, the report descriptor scan that yields the   *)
(*     packet size (specifications SpecParse and SpecScanFair);            *)
(*   - dbg_dap_cmd, the framed request/response exchange (specification    *)
(*     Spec);                                                              *)
(*   - dbg_open, dbg_close, dbg_get_report_size and dbg_dap_cmd called in  *)
(*     any order (specification SpecLife);                                 *)
(*   - dbg_enumerate, the device filter (specification SpecEnum).          *)
(* uint32_t values are pairs <<low 16 bits, high 16 bits>>: TLC's integers *)
(* are 32-bit signed, the program's counters are 32-bit unsigned.          *)
(***************************************************************************)
EXTENDS Integers, Sequences, FiniteSets, TLC

VARIABLES
  \* ---- parse_hid_report_desc (specification SpecParse) ----
  items,      \* history: the items the descriptor under scan was built from
  cut,        \* history: how many trailing payload bytes the descriptor lacks
              \*          (-1: the descriptor was not built from items)
  data,       \* the descriptor bytes, data[0 .. size-1] in the source
  size,       \* the length handed to the parser
  i,          \* the scan position
  count,      \* uint32_t count
  input,      \* uint32_t input
  output,     \* uint32_t output
  heads,      \* history: the positions read as an item header, in order
  pc_parse,   \* "loop" | "returned" | "exited"
  parse_ret,  \* <<the value returned>> (NoValue while none is)
  parse_msg,  \* the message of the error_exit that ended the parse
  \* ---- the session (specification Spec) ----
  debugger_fd,  \* static int debugger_fd
  hid_buffer,   \* static uint8_t hid_buffer[DBG_MAX_EP_SIZE + 1]
  report_size,  \* static int report_size
  hid_stale,    \* history: the indices of hid_buffer not written since the
                \*          current dbg_dap_cmd call began
  pc,           \* where the process is: "idle" between calls, a step of
                \*          dbg_open or dbg_dap_cmd, or "exited"
  dev_desc,     \* the report descriptor of the device being opened
  desc_size,    \* dbg_open: int desc_size
  rpt_desc,     \* dbg_open: struct hidraw_report_descriptor rpt_desc
  cmd_data,     \* dbg_dap_cmd: the caller's buffer, data[0 ..]
  data_in,      \* history: the caller's buffer as it was passed in
  req_size,     \* dbg_dap_cmd: int req_size
  resp_size,    \* dbg_dap_cmd: int resp_size
  cmd,          \* dbg_dap_cmd: uint8_t cmd
  res,          \* dbg_dap_cmd: int res
  ret,          \* <<the value dbg_dap_cmd returned>> (NoValue while none is)
  exit_msg,     \* the message the process exited with ("" while it runs)
  exit_args,    \* the values printed with that message
  io,           \* history: the uses of hid_buffer in the current call, in
                \*          order: device writes, device reads, the copy-out
  prev_longer,  \* history: the call before had a longer request than this one
  std_fds,      \* the descriptors the process was started with (0, 1, 2, or
                \*          1, 2 when it was started with stdin closed)
  fds,          \* the handles dbg_open acquired that were not released since
  olog,         \* history: the steps of the current dbg_open call, in order
  closes,       \* history: one entry for each dbg_close call made
  got,          \* history: the values dbg_get_report_size returned, in order
  budget,       \* how many more of dbg_open, dbg_close, dbg_get_report_size
                \*          the caller makes
  \* ---- dbg_enumerate (specification SpecEnum) ----
  cands,        \* the hidraw devices udev lists, in discovery order
  enum_size,    \* dbg_enumerate: int size, the capacity of debuggers[]
  debuggers,    \* dbg_enumerate: debugger_t debuggers[size]
  rsize,        \* dbg_enumerate: int rsize
  entry,        \* dbg_enumerate: dev_list_entry, as a position in cands
  enum_ret,     \* <<the value dbg_enumerate returned>> (NoValue while none is)
  wlog          \* history: the writes to debuggers[]: which slot, which device

parse_vars == <<items, cut, data, size, i, count, input, output, heads,
                pc_parse, parse_ret, parse_msg>>

\* dbg_open's locals and the device it opens
open_vars == <<dev_desc, desc_size, rpt_desc>>

\* dbg_dap_cmd's arguments, locals, result and history
call_vars == <<cmd_data, data_in, req_size, resp_size, cmd, res, ret, io, prev_longer>>

exit_vars == <<exit_msg, exit_args>>

\* the process's handles, and the history of the calls made on the session
life_vars == <<std_fds, fds, olog, closes, got, budget>>

session_vars == <<debugger_fd, hid_buffer, report_size, hid_stale, pc, open_vars,
                  call_vars, exit_vars, life_vars>>

enum_vars == <<cands, enum_size, debuggers, rsize, entry, enum_ret, wlog>>

vars == <<parse_vars, session_vars, enum_vars>>

-----------------------------------------------------------------------------
(* Bounds of the model *)

\* the most items of a descriptor built freely from the alphabet
MaxItems == 3

-----------------------------------------------------------------------------
(* Values *)

\* a return value is <<v>>; no value returned is <<>>
NoValue == <<>>

\* a uint32_t whose value n is below 2^31, as <<low half, high half>>
U32(n) == <<n % 65536, n \div 65536>>

\* bitwise or of two naturals
RECURSIVE BitOr(_, _)
BitOr(a, b) ==
  IF a = 0 THEN b
  ELSE IF b = 0 THEN a
  ELSE (IF a % 2 = 1 \/ b % 2 = 1 THEN 1 ELSE 0) + 2 * BitOr(a \div 2, b \div 2)

\* count |= x on uint32_t
OrU32(x, y) == <<BitOr(x[1], y[1]), BitOr(x[2], y[2])>>

\* (b << s) for a byte b promoted to int, s in {0, 8, 16, 24}, converted to
\* uint32_t by the |= : the low 32 bits of b * 2^s.  For b >= 128 and s = 24
\* the product does not fit an int; gcc and clang define the shift there as
\* the two's-complement bit pattern (bit 31 set), and the conversion to
\* uint32_t keeps that pattern, so this is the one value a build yields.
ShlU32(b, s) ==
  IF s < 16
    THEN <<(b * (2 ^ s)) % 65536, (b * (2 ^ s)) \div 65536>>
    ELSE <<0, (b * (2 ^ (s - 16))) % 65536>>

-----------------------------------------------------------------------------
(* parse_hid_report_desc *)

MsgMismatch == "input and output report sizes do not match"
MsgUnsupported == "detected report size (%d) is not 64, 512 or 1024"

\* data[k]: the descriptor lives in rpt_desc.value, zeroed by dbg_open before
\* the device fills its first size bytes, so a read past size yields 0.
DataAt(d, k) == IF k < Len(d) THEN d[k + 1] ELSE 0

bTagOf(prefix) == (prefix \div 16) % 16
bTypeOf(prefix) == (prefix \div 4) % 4
bSizeCode(prefix) == prefix % 4
\* a faulty variant: size code 3 taken as 3 bytes
bSizeOf_Raw(prefix) == bSizeCode(prefix)

bSizeOf(prefix) == IF 3 = bSizeCode(prefix) THEN 4 ELSE bSizeCode(prefix)

\* for (j = 0; j < bSize; j++) count |= (data[i + j] << (j * 8));
RECURSIVE CountLoop(_, _, _, _, _)
CountLoop(d, pos, j, n, acc) ==
  IF j < n
    THEN CountLoop(d, pos, j + 1, n, OrU32(acc, ShlU32(DataAt(d, pos + j), j * 8)))
    ELSE acc

\* a faulty variant: tag 9 of any type but Main taken for a Report Count
ScanItem_TagOnly(d, st) ==
  LET prefix == DataAt(d, st.i)
      i1     == st.i + 1
      tag    == bTagOf(prefix)
      type   == bTypeOf(prefix)
      n      == bSizeOf(prefix)
      st1    == IF 9 = tag /\ type # 0
                  THEN [st EXCEPT !.count = CountLoop(d, i1, 0, n, U32(0))]
                ELSE IF 0 = type /\ 8 = tag
                  THEN [st EXCEPT !.input = st.count]
                ELSE IF 0 = type /\ 9 = tag
                  THEN [st EXCEPT !.output = st.count]
                ELSE st
  IN  [st1 EXCEPT !.i = i1 + n]

\* a faulty variant: the header read without stepping past it (data[i], not
\* data[i++])
ScanItem_HeaderNotPassed(d, st) ==
  LET prefix == DataAt(d, st.i)
      i1     == st.i
      tag    == bTagOf(prefix)
      type   == bTypeOf(prefix)
      n      == bSizeOf(prefix)
      st1    == IF 1 = type /\ 9 = tag
                  THEN [st EXCEPT !.count = CountLoop(d, i1, 0, n, U32(0))]
                ELSE IF 0 = type /\ 8 = tag
                  THEN [st EXCEPT !.input = st.count]
                ELSE IF 0 = type /\ 9 = tag
                  THEN [st EXCEPT !.output = st.count]
                ELSE st
  IN  [st1 EXCEPT !.i = i1 + n]

\* a faulty variant: count not cleared before a Report Count is or-ed in
ScanItem_Accumulate(d, st) ==
  LET prefix == DataAt(d, st.i)
      i1     == st.i + 1
      tag    == bTagOf(prefix)
      type   == bTypeOf(prefix)
      n      == bSizeOf(prefix)
      st1    == IF 1 = type /\ 9 = tag
                  THEN [st EXCEPT !.count = CountLoop(d, i1, 0, n, st.count)]
                ELSE IF 0 = type /\ 8 = tag
                  THEN [st EXCEPT !.input = st.count]
                ELSE IF 0 = type /\ 9 = tag
                  THEN [st EXCEPT !.output = st.count]
                ELSE st
  IN  [st1 EXCEPT !.i = i1 + n]

\* One pass of the for loop's body, on the locals st = [i, count, input, output].
ScanItem(d, st) ==
  LET prefix == DataAt(d, st.i)
      i1     == st.i + 1
      tag    == bTagOf(prefix)
      type   == bTypeOf(prefix)
      n      == bSizeOf(prefix)
      st1    == IF 1 = type /\ 9 = tag
                  THEN [st EXCEPT !.count = CountLoop(d, i1, 0, n, U32(0))]
                ELSE IF 0 = type /\ 8 = tag
                  THEN [st EXCEPT !.input = st.count]
                ELSE IF 0 = type /\ 9 = tag
                  THEN [st EXCEPT !.output = st.count]
                ELSE st
  IN  [st1 EXCEPT !.i = i1 + n]

\* a faulty variant: the supported-size check made first, on the input size
Validate_SupportedFirst(in, out) ==
  IF U32(64) # in /\ U32(512) # in /\ U32(1024) # in
    THEN [msg |-> MsgUnsupported, ret |-> NoValue]
  ELSE IF in # out
    THEN [msg |-> MsgMismatch, ret |-> NoValue]
  ELSE [msg |-> "", ret |-> <<in[1]>>]

\* a faulty variant: a size of 0 (nothing declared) let through
Validate_ZeroAccepted(in, out) ==
  IF in # out
    THEN [msg |-> MsgMismatch, ret |-> NoValue]
  ELSE IF U32(0) # in /\ U32(64) # in /\ U32(512) # in /\ U32(1024) # in
    THEN [msg |-> MsgUnsupported, ret |-> NoValue]
  ELSE [msg |-> "", ret |-> <<in[1]>>]

\* The checks after the loop: [msg, ret].
Validate(in, out) ==
  IF in # out
    THEN [msg |-> MsgMismatch, ret |-> NoValue]
  ELSE IF U32(64) # in /\ U32(512) # in /\ U32(1024) # in
    THEN [msg |-> MsgUnsupported, ret |-> NoValue]
  ELSE [msg |-> "", ret |-> <<in[1]>>]

Locals == [i |-> i, count |-> count, input |-> input, output |-> output]

ParseItem ==
  /\ pc_parse = "loop"
  /\ i < size
  /\ LET st == ScanItem(data, Locals)
     IN  /\ i' = st.i
         /\ count' = st.count
         /\ input' = st.input
         /\ output' = st.output
  /\ heads' = Append(heads, i)
  /\ UNCHANGED <<items, cut, data, size, pc_parse, parse_ret, parse_msg>>
  /\ UNCHANGED <<session_vars, enum_vars>>

ParseFinish ==
  /\ pc_parse = "loop"
  /\ ~(i < size)
  /\ LET v == Validate(input, output)
     IN  /\ parse_msg' = v.msg
         /\ parse_ret' = v.ret
         /\ pc_parse' = IF v.msg = "" THEN "returned" ELSE "exited"
  /\ UNCHANGED <<items, cut, data, size, i, count, input, output, heads>>
  /\ UNCHANGED <<session_vars, enum_vars>>

-----------------------------------------------------------------------------
(* The descriptors the parser is run on *)

Item(hdr, payload) == [hdr |-> hdr, payload |-> payload]

ItemBytes(it) == <<it.hdr>> \o it.payload

RECURSIVE Flatten(_)
Flatten(its) == IF its = <<>> THEN <<>> ELSE ItemBytes(Head(its)) \o Flatten(Tail(its))

ReportCount1(b0) == Item(149, <<b0>>)                   \* 0x95
ReportCount2(b0, b1) == Item(150, <<b0, b1>>)           \* 0x96
ReportCount4(b0, b1, b2, b3) == Item(151, <<b0, b1, b2, b3>>)  \* 0x97
ReportCount0 == Item(148, <<>>)                         \* 0x94
InputItem == Item(129, <<2>>)                           \* 0x81 0x02
OutputItem == Item(145, <<2>>)                          \* 0x91 0x02

\* Items the parser ignores: Report ID (type 1, tag 8), a local item with tag 9
\* (type 2), End Collection (no payload), and a 4-byte Logical Maximum whose
\* last payload byte is the Report Count header 0x95.
IgnoredItems ==
  { Item(133, <<1>>), Item(153, <<64>>), Item(192, <<>>),
    Item(39, <<0, 0, 0, 149>>) }

Alphabet ==
  { ReportCount1(64), ReportCount2(0, 2), ReportCount4(0, 4, 0, 0),
    ReportCount1(32), ReportCount0, InputItem, OutputItem } \cup IgnoredItems

ByteSamples == {0, 1, 64, 128, 255}

\* a 4-byte Report Count of sampled bytes, after a 4-byte ignored item
ProbeDescriptors ==
  { <<Item(39, <<b3, b2, b1, b0>>), ReportCount4(b0, b1, b2, b3), InputItem, OutputItem>> :
      <<b0, b1, b2, b3>> \in ByteSamples \X ByteSamples \X ByteSamples \X ByteSamples }

\* every sequence of at most MaxItems items of the alphabet
ItemSeqs == UNION { [1..n -> Alphabet] : n \in 0..MaxItems }

ReportCounts ==
  { ReportCount1(64), ReportCount2(0, 2), ReportCount4(0, 4, 0, 0),
    ReportCount1(32), ReportCount0 }

\* nothing, or one ignored item: the local item with tag 9 or the 4-byte one
Filler == { <<>>, <<Item(153, <<64>>)>>, <<Item(39, <<0, 0, 0, 149>>)>> }

\* descriptors shaped like a CMSIS-DAP one: a Report Count, an Input item,
\* maybe a second Report Count, an Output item, with ignored items before,
\* between and after
ShapedDescriptors ==
  { g1 \o <<a>> \o g2 \o <<InputItem>> \o g3 \o b \o <<OutputItem>> \o g4 :
      g1 \in Filler, a \in ReportCounts, g2 \in Filler, g3 \in Filler,
      b \in {<<>>} \cup { <<c>> : c \in ReportCounts }, g4 \in Filler }

\* the most bytes of a descriptor of arbitrary bytes
MaxRaw == 3

\* bytes for such descriptors: the headers of Report Count (1, 2 and 4 bytes),
\* Input and Output, and 0x00, 0x40, 0xFF
RawBytes == {0, 64, 129, 145, 149, 150, 151, 255}

\* every byte sequence of at most MaxRaw of these bytes, the empty one included
RawDescriptors == UNION { [1..n -> RawBytes] : n \in 0..MaxRaw }

\* a descriptor may lack up to all payload bytes of its last item
Cuts(its) == IF its = <<>> THEN {0} ELSE 0..Len(its[Len(its)].payload)

-----------------------------------------------------------------------------
(* The whole parser as dbg_open calls it: the loop run to its end, then the  *)
(* checks.                                                                   *)

RECURSIVE ScanAll(_, _, _)
ScanAll(d, n, st) == IF st.i < n THEN ScanAll(d, n, ScanItem(d, st)) ELSE st

parse_hid_report_desc(d, n) ==
  LET st == ScanAll(d, n, [i |-> 0, count |-> U32(0), input |-> U32(0), output |-> U32(0)])
  IN  Validate(st.input, st.output)

-----------------------------------------------------------------------------
(* Process exit: error_exit, perror_exit and check end the process.          *)

MsgOpen == "unable to open device %s: %s"
MsgIoctl == "debugger ioctl()"
MsgWrite == "debugger write()"
MsgRead == "debugger read()"
MsgEmpty == "empty response received"
MsgInvalid == "invalid response received: request = 0x%02x, response = 0x%02x"

error_exit(msg, args) ==
  /\ pc' = "exited"
  /\ exit_msg' = msg
  /\ exit_args' = args

perror_exit(text) == error_exit(text, <<>>)

\* check(cond, msg): exits with msg unless cond holds, else goes on at next
check(cond, msg, next) ==
  IF cond
    THEN pc' = next /\ UNCHANGED <<exit_msg, exit_args>>
    ELSE error_exit(msg, <<>>)

-----------------------------------------------------------------------------
(* hid_buffer, with the history of which indices hold bytes from before the  *)
(* current call: B = [b |-> the bytes, stale |-> those indices].             *)

\* the largest packet size: hid_buffer holds DBG_MAX_EP_SIZE + 1 bytes
DBG_MAX_EP_SIZE == 1024

BufIndex == 0..DBG_MAX_EP_SIZE

\* memset(&B[0], c, n)
memset(B, c, n) ==
  [b     |-> [k \in BufIndex |-> IF k < n THEN c ELSE B.b[k]],
   stale |-> B.stale \ (0..(n - 1))]

\* B[k] = c
store(B, k, c) ==
  [b |-> [B.b EXCEPT ![k] = c], stale |-> B.stale \ {k}]

\* memcpy(&B[off], src, n), src a sequence of at least n bytes
memcpy_to(B, off, src, n) ==
  [b     |-> [k \in BufIndex |-> IF off <= k /\ k < off + n THEN src[k - off + 1] ELSE B.b[k]],
   stale |-> B.stale \ (off..(off + n - 1))]

\* the first n bytes of the buffer, as handed to write()
BufPrefix(b, n) == [k \in 1..n |-> b[k - 1]]

\* a faulty variant: the whole of hid_buffer filled, whatever the packet size
BuildFrame_FillWhole(B, d, n, psize) ==
  memcpy_to(store(memset(B, 255, DBG_MAX_EP_SIZE + 1), 0, 0), 1, d, n)

\* a faulty variant: the frame filled with zero
BuildFrame_ZeroFill(B, d, n, psize) ==
  memcpy_to(store(memset(B, 0, psize + 1), 0, 0), 1, d, n)

\* a faulty variant: only the request's part of the frame filled
BuildFrame_ShortFill(B, d, n, psize) ==
  memcpy_to(store(memset(B, 255, n + 1), 0, 0), 1, d, n)

\* dbg_dap_cmd, lines 171-174: fill, report ID, request
BuildFrame(B, d, n, psize) ==
  memcpy_to(store(memset(B, 255, psize + 1), 0, 0), 1, d, n)

\* memcpy(data, &hid_buffer[1], n) into the caller's buffer d
CopyOut(d, b, n) == [k \in 1..Len(d) |-> IF k <= n THEN b[k] ELSE d[k]]

\* a faulty variant: the capacity copied whatever the reply's length
CopyLen_AlwaysCapacity(rs, r) == rs

\* (resp_size < res) ? resp_size : res
CopyLen(rs, r) == IF rs < r THEN rs ELSE r

-----------------------------------------------------------------------------
(* The calls the session is driven with *)

\* the length of the short request; the short reply is one byte longer and
\* the small capacity one byte shorter
MaxShort == 3

\* the descriptors of the devices opened: 64, 512 and 1024 bytes, a mismatch
\* and an unsupported size
SessionDescriptors ==
  { Flatten(<<ReportCount1(64), InputItem, OutputItem>>),
    Flatten(<<ReportCount2(0, 2), InputItem, OutputItem>>),
    Flatten(<<ReportCount2(0, 4), InputItem, OutputItem>>),
    Flatten(<<ReportCount1(64), InputItem, ReportCount2(0, 2), OutputItem>>),
    Flatten(<<ReportCount1(32), InputItem, OutputItem>>) }

\* command identifiers: 0x00 (the value of the report ID byte) and 0x02
CmdSamples == {0, 2}

\* a request of n bytes: the identifier, then 0xAA, 0xBB, ...
Request(c, n) == [k \in 1..n |-> IF k = 1 THEN c ELSE (170 + 17 * (k - 2)) % 256]

\* the requests made on a session of packet size psize: of 1 byte, of MaxShort
\* bytes and of psize bytes (none longer: the callers' contract)
Requests(psize) ==
  { Request(c, n) : c \in CmdSamples, n \in { m \in {1, MaxShort, psize} : 1 <= m /\ m <= psize } }

\* the response capacities asked for
Capacities(psize) == {0, MaxShort - 1, psize}

\* the caller's buffer: the request, then whatever the caller had there (0x5A)
CallerBuffer(rq, c) ==
  [k \in 1..(IF Len(rq) < c THEN c ELSE Len(rq)) |-> IF k <= Len(rq) THEN rq[k] ELSE 90]

\* a reply of n bytes: its first byte, then 0x10, 0x11, ...
Reply(first, n) == [k \in 1..n |-> IF k = 1 THEN first ELSE 16 + ((k - 2) % 8)]

\* the replies to a request with identifier c: the identifier echoed, or 0xFF
\* in its place; empty, a lone identifier, short, or a whole frame
Replies(c, psize) ==
  { Reply(f, n) : f \in {c, 255}, n \in {0, 1, MaxShort + 1, psize + 1} }

-----------------------------------------------------------------------------
(* dbg_open *)

\* open() yields the lowest descriptor number not in use
LowestFree(used) ==
  CHOOSE n \in 0..Cardinality(used) : n \notin used /\ \A m \in 0..(n - 1) : m \in used

\* a step of dbg_open: which, the handle or size it was made with, its result
Step(op, arg, result) == [op |-> op, arg |-> arg, res |-> result]

\* debugger_fd = open(...).  With budget = 1 the caller opens one device in a
\* run, before any other call.
DbgOpen ==
  /\ pc = "idle"
  /\ budget > 0
  /\ budget' = budget - 1
  /\ \/ /\ debugger_fd' = -1
        /\ error_exit(MsgOpen, <<>>)
        /\ UNCHANGED <<dev_desc, rpt_desc, fds>>
     \/ /\ debugger_fd' = LowestFree(std_fds \cup fds)
        /\ fds' = fds \cup {debugger_fd'}
        /\ \E d \in SessionDescriptors : dev_desc' = d
        /\ rpt_desc' = [size |-> 0, value |-> <<>>]
        /\ pc' = "open_size"
        /\ UNCHANGED exit_vars
  /\ olog' = <<Step("open", 0, debugger_fd')>>
  /\ UNCHANGED <<hid_buffer, report_size, hid_stale, desc_size, call_vars>>
  /\ UNCHANGED <<std_fds, closes, got>>
  /\ UNCHANGED <<parse_vars, enum_vars>>

\* res = ioctl(debugger_fd, HIDIOCGRDESCSIZE, &desc_size)
OpenDescSize ==
  /\ pc = "open_size"
  /\ \/ /\ perror_exit(MsgIoctl)
        /\ olog' = Append(olog, Step("size", debugger_fd, -1))
        /\ UNCHANGED desc_size
     \/ /\ desc_size' = Len(dev_desc)
        /\ olog' = Append(olog, Step("size", debugger_fd, desc_size'))
        /\ pc' = "open_desc"
        /\ UNCHANGED exit_vars
  /\ UNCHANGED <<debugger_fd, hid_buffer, report_size, hid_stale, dev_desc, rpt_desc,
                 call_vars>>
  /\ UNCHANGED <<std_fds, fds, closes, got, budget>>
  /\ UNCHANGED <<parse_vars, enum_vars>>

\* a faulty variant: rpt_desc.size not set from desc_size, so the content is
\* asked for with the size the memset left (0)
OpenDesc_SizeNotSet ==
  /\ pc = "open_desc"
  /\ \/ /\ perror_exit(MsgIoctl)
        /\ olog' = Append(olog, Step("desc", rpt_desc.size, -1))
        /\ UNCHANGED rpt_desc
     \/ /\ rpt_desc' = [rpt_desc EXCEPT !.value = SubSeq(dev_desc, 1, rpt_desc.size)]
        /\ olog' = Append(olog, Step("desc", rpt_desc.size, 0))
        /\ pc' = "open_parse"
        /\ UNCHANGED exit_vars
  /\ UNCHANGED <<debugger_fd, hid_buffer, report_size, hid_stale, dev_desc, desc_size,
                 call_vars>>
  /\ UNCHANGED <<std_fds, fds, closes, got, budget>>
  /\ UNCHANGED <<parse_vars, enum_vars>>

\* rpt_desc.size = desc_size; res = ioctl(debugger_fd, HIDIOCGRDESC, &rpt_desc):
\* the device's descriptor, at most rpt_desc.size bytes of it, lands in
\* rpt_desc.value; rpt_desc.size is left as set
OpenDesc ==
  /\ pc = "open_desc"
  /\ \/ /\ perror_exit(MsgIoctl)
        /\ rpt_desc' = [rpt_desc EXCEPT !.size = desc_size]
        /\ olog' = Append(olog, Step("desc", desc_size, -1))
     \/ /\ rpt_desc' = [size |-> desc_size, value |-> SubSeq(dev_desc, 1, desc_size)]
        /\ olog' = Append(olog, Step("desc", desc_size, 0))
        /\ pc' = "open_parse"
        /\ UNCHANGED exit_vars
  /\ UNCHANGED <<debugger_fd, hid_buffer, report_size, hid_stale, dev_desc, desc_size,
                 call_vars>>
  /\ UNCHANGED <<std_fds, fds, closes, got, budget>>
  /\ UNCHANGED <<parse_vars, enum_vars>>

\* report_size = parse_hid_report_desc(rpt_desc.value, rpt_desc.size)
OpenParse ==
  /\ pc = "open_parse"
  /\ LET v == parse_hid_report_desc(rpt_desc.value, rpt_desc.size)
     IN  /\ olog' = Append(olog, Step("parse", rpt_desc.size, v.ret))
         /\ IF v.msg = ""
              THEN /\ report_size' = v.ret[1]
                   /\ pc' = "idle"
                   /\ UNCHANGED exit_vars
              ELSE /\ error_exit(v.msg, <<>>)
                   /\ UNCHANGED report_size
  /\ UNCHANGED <<debugger_fd, hid_buffer, hid_stale, open_vars, call_vars>>
  /\ UNCHANGED <<std_fds, fds, closes, got, budget>>
  /\ UNCHANGED <<parse_vars, enum_vars>>

-----------------------------------------------------------------------------
(* dbg_close and dbg_get_report_size *)

\* a faulty variant: closing also forgets the packet size
DbgClose_ForgetsSize ==
  /\ pc = "idle"
  /\ budget > 0
  /\ budget' = budget - 1
  /\ closes' = Append(closes, [fd |-> debugger_fd, held |-> debugger_fd \in fds,
                               issued |-> debugger_fd # 0])
  /\ fds' = IF debugger_fd # 0 THEN fds \ {debugger_fd} ELSE fds
  /\ report_size' = 0
  /\ UNCHANGED <<debugger_fd, hid_buffer, hid_stale, pc, open_vars, call_vars,
                 exit_vars, std_fds, olog, got>>
  /\ UNCHANGED <<parse_vars, enum_vars>>

\* if (debugger_fd) close(debugger_fd);  close() on a number that is no open
\* descriptor fails with EBADF and releases nothing; its result is not looked
\* at.  The entry says which number the session had, whether the session held
\* that handle, and whether close() was issued.
DbgClose ==
  /\ pc = "idle"
  /\ budget > 0
  /\ budget' = budget - 1
  /\ closes' = Append(closes, [fd |-> debugger_fd, held |-> debugger_fd \in fds,
                               issued |-> debugger_fd # 0])
  /\ fds' = IF debugger_fd # 0 THEN fds \ {debugger_fd} ELSE fds
  /\ UNCHANGED <<debugger_fd, hid_buffer, report_size, hid_stale, pc, open_vars,
                 call_vars, exit_vars, std_fds, olog, got>>
  /\ UNCHANGED <<parse_vars, enum_vars>>

\* return report_size;
DbgGetReportSize ==
  /\ pc = "idle"
  /\ budget > 0
  /\ budget' = budget - 1
  /\ got' = Append(got, report_size)
  /\ UNCHANGED <<debugger_fd, hid_buffer, report_size, hid_stale, pc, open_vars,
                 call_vars, exit_vars, std_fds, fds, olog, closes>>
  /\ UNCHANGED <<parse_vars, enum_vars>>

-----------------------------------------------------------------------------
(* dbg_dap_cmd *)

\* a use of hid_buffer: what was done, with which length, the bytes that
\* passed, the indices among them not written in this call, and the result
Use(op, len, bytes, stale, result) ==
  [op |-> op, len |-> len, bytes |-> bytes, stale |-> stale, res |-> result]

\* entry to the write: cmd = data[0], the frame built in hid_buffer, for a
\* request among RQ and a capacity among CP.  Calls are made with requests of
\* 1 .. report_size bytes.
DapCallOf(RQ, CP) ==
  /\ pc = "idle"
  /\ \E rq \in { q \in RQ : 1 <= Len(q) /\ Len(q) <= report_size }, c \in CP :
       LET d == CallerBuffer(rq, c)
           B == BuildFrame([b |-> hid_buffer, stale |-> BufIndex], d, Len(rq), report_size)
       IN  /\ cmd_data' = d
           /\ data_in' = d
           /\ req_size' = Len(rq)
           /\ resp_size' = c
           /\ cmd' = d[1]
           /\ hid_buffer' = B.b
           /\ hid_stale' = B.stale
           /\ prev_longer' = (req_size > Len(rq))
  /\ res' = 0
  /\ ret' = NoValue
  /\ io' = <<>>
  /\ pc' = "dap_write"
  /\ UNCHANGED <<life_vars, debugger_fd, report_size, open_vars, exit_vars>>
  /\ UNCHANGED <<parse_vars, enum_vars>>

\* the calls of Spec: every request and capacity of the families
DapCall == DapCallOf(Requests(report_size), Capacities(report_size))

\* the calls of SpecLife: one short request, capacity for one byte
LifeDapCall == DapCallOf({Request(2, 2)}, {1})

\* a faulty variant: a failed write tried again
DapWrite_Retry ==
  /\ pc = "dap_write"
  /\ \/ /\ res' = -1
        /\ pc' = "dap_write"
     \/ /\ debugger_fd \in fds
        /\ res' \in {0, report_size + 1}
        /\ pc' = "dap_read"
  /\ io' = Append(io, Use("write", report_size + 1,
                          BufPrefix(hid_buffer, report_size + 1),
                          hid_stale \cap (0..report_size), res'))
  /\ UNCHANGED <<life_vars, debugger_fd, hid_buffer, report_size, hid_stale, open_vars,
                 cmd_data, data_in, req_size, resp_size, cmd, ret, prev_longer, exit_vars>>
  /\ UNCHANGED <<parse_vars, enum_vars>>

\* res = write(debugger_fd, hid_buffer, report_size + 1): an error (the only
\* outcome on a handle that is not open), or a count of bytes written (the
\* whole frame or, for a short write, fewer)
DapWrite ==
  /\ pc = "dap_write"
  /\ \/ /\ res' = -1
        /\ perror_exit(MsgWrite)
     \/ /\ debugger_fd \in fds
        /\ res' \in {0, report_size + 1}
        /\ pc' = "dap_read"
        /\ UNCHANGED exit_vars
  /\ io' = Append(io, Use("write", report_size + 1,
                          BufPrefix(hid_buffer, report_size + 1),
                          hid_stale \cap (0..report_size), res'))
  /\ UNCHANGED <<life_vars, debugger_fd, hid_buffer, report_size, hid_stale, open_vars,
                 cmd_data, data_in, req_size, resp_size, cmd, ret, prev_longer>>
  /\ UNCHANGED <<parse_vars, enum_vars>>

\* res = read(debugger_fd, hid_buffer, report_size + 1)
DapRead ==
  /\ pc = "dap_read"
  /\ \/ /\ res' = -1
        /\ io' = Append(io, Use("read", report_size + 1, <<>>, {}, -1))
        /\ perror_exit(MsgRead)
        /\ UNCHANGED <<hid_buffer, hid_stale>>
     \/ \E rp \in { r \in Replies(cmd, report_size) : debugger_fd \in fds } :
          LET B == memcpy_to([b |-> hid_buffer, stale |-> hid_stale], 0, rp, Len(rp))
          IN  /\ res' = Len(rp)
              /\ io' = Append(io, Use("read", report_size + 1, rp, {}, Len(rp)))
              /\ hid_buffer' = B.b
              /\ hid_stale' = B.stale
              /\ pc' = "dap_check"
              /\ UNCHANGED exit_vars
  /\ UNCHANGED <<life_vars, debugger_fd, report_size, open_vars,
                 cmd_data, data_in, req_size, resp_size, cmd, ret, prev_longer>>
  /\ UNCHANGED <<parse_vars, enum_vars>>

\* a faulty variant: the empty response not checked for
DapCheck_Skipped ==
  /\ pc = "dap_check"
  /\ pc' = "dap_compare"
  /\ UNCHANGED <<life_vars, debugger_fd, hid_buffer, report_size, hid_stale, open_vars, call_vars,
                 exit_vars>>
  /\ UNCHANGED <<parse_vars, enum_vars>>

\* check(res, "empty response received")
DapCheck ==
  /\ pc = "dap_check"
  /\ check(res # 0, MsgEmpty, "dap_compare")
  /\ UNCHANGED <<life_vars, debugger_fd, hid_buffer, report_size, hid_stale, open_vars, call_vars>>
  /\ UNCHANGED <<parse_vars, enum_vars>>

\* a faulty variant: the payload copied out before the identifier is compared
DapCompare_CopyFirst ==
  /\ pc = "dap_compare"
  /\ cmd_data' = CopyOut(cmd_data, hid_buffer, CopyLen(resp_size, res - 1))
  /\ IF hid_buffer[0] # cmd
       THEN error_exit(MsgInvalid, <<cmd, hid_buffer[0]>>)
       ELSE pc' = "dap_copy" /\ UNCHANGED exit_vars
  /\ UNCHANGED <<life_vars, debugger_fd, hid_buffer, report_size, hid_stale, open_vars,
                 data_in, req_size, resp_size, cmd, res, ret, io, prev_longer>>
  /\ UNCHANGED <<parse_vars, enum_vars>>

\* if (hid_buffer[0] != cmd) error_exit(...)
DapCompare ==
  /\ pc = "dap_compare"
  /\ IF hid_buffer[0] # cmd
       THEN error_exit(MsgInvalid, <<cmd, hid_buffer[0]>>)
       ELSE pc' = "dap_copy" /\ UNCHANGED exit_vars
  /\ UNCHANGED <<life_vars, debugger_fd, hid_buffer, report_size, hid_stale, open_vars, call_vars>>
  /\ UNCHANGED <<parse_vars, enum_vars>>

\* res--; memcpy(data, &hid_buffer[1], ...); return res;
DapReturn ==
  /\ pc = "dap_copy"
  /\ LET n == CopyLen(resp_size, res - 1)
     IN  /\ cmd_data' = CopyOut(cmd_data, hid_buffer, n)
         /\ io' = Append(io, Use("copy", n, [k \in 1..n |-> hid_buffer[k]],
                                 hid_stale \cap (1..n), res - 1))
  /\ res' = res - 1
  /\ ret' = <<res - 1>>
  /\ pc' = "idle"
  /\ UNCHANGED <<life_vars, debugger_fd, hid_buffer, report_size, hid_stale, open_vars,
                 data_in, req_size, resp_size, cmd, prev_longer, exit_vars>>
  /\ UNCHANGED <<parse_vars, enum_vars>>

-----------------------------------------------------------------------------
(* dbg_enumerate.  A string is a sequence of characters; an attribute value  *)
(* is <<the string>>, or <<>> where udev returns NULL.                       *)

\* the most devices udev lists, and the largest capacity asked for
MaxCands == 3
MaxCap == 2

MsgUdev == "unable to create udev object"

Marker == <<"C", "M", "S", "I", "S", "-", "D", "A", "P">>

Unknown == <<"<", "u", "n", "k", "n", "o", "w", "n", ">">>

\* a faulty variant: the product must start with the marker
strstr_AtStart(hay, needle) ==
  Len(needle) <= Len(hay) /\ SubSeq(hay, 1, Len(needle)) = needle

\* strstr(hay, needle) != NULL
strstr(hay, needle) ==
  \E k \in 0..(Len(hay) - Len(needle)) : SubSeq(hay, k + 1, k + Len(needle)) = needle

\* attr ? strdup(attr) : "<unknown>"
OrUnknown(attr) == IF attr # <<>> THEN attr[1] ELSE Unknown

HexDigit(c) ==
  CASE c = "0" -> 0 [] c = "1" -> 1 [] c = "2" -> 2 [] c = "3" -> 3 [] c = "4" -> 4
    [] c = "5" -> 5 [] c = "6" -> 6 [] c = "7" -> 7 [] c = "8" -> 8 [] c = "9" -> 9
    [] c = "a" -> 10 [] c = "b" -> 11 [] c = "c" -> 12 [] c = "d" -> 13
    [] c = "e" -> 14 [] c = "f" -> 15

\* strtol(str, NULL, 16) of a string of hexadecimal digits
RECURSIVE strtol16(_)
strtol16(str) ==
  IF str = <<>> THEN 0
  ELSE 16 * strtol16(SubSeq(str, 1, Len(str) - 1)) + HexDigit(str[Len(str)])

\* a hidraw device as udev shows it; marked is history: whether the product
\* string was built around the marker
Device(parent, serial, manufacturer, product, marked) ==
  [parent |-> parent, serial |-> serial, manufacturer |-> manufacturer,
   product |-> product, idVendor |-> <<"0", "3", "e", "b">>,
   idProduct |-> <<"2", "1", "1", "1">>, marked |-> marked]

Atmel == <<"A", "t", "m", "e", "l">>

\* the devices listed: one with no USB parent; with a parent, products that
\* are the marker, hold it inside, lack its last character, spell it in lower
\* case, or are missing
DeviceSamples ==
  { Device(FALSE, <<>>, <<>>, <<Marker>>, TRUE),
    Device(TRUE, <<<<"1", "2">>>>, <<Atmel>>, <<Marker>>, TRUE),
    Device(TRUE, <<>>, <<>>, <<<<"E", " ">> \o Marker \o <<" ", "v", "2">>>>, TRUE),
    Device(TRUE, <<<<"7">>>>, <<Atmel>>, <<SubSeq(Marker, 1, Len(Marker) - 1)>>, FALSE),
    Device(TRUE, <<>>, <<Atmel>>, <<<<"c", "m", "s", "i", "s", "-", "d", "a", "p">>>>, FALSE),
    Device(TRUE, <<<<"9">>>>, <<Atmel>>, <<>>, FALSE) }

CandidateLists == UNION { [1..n -> DeviceSamples] : n \in 0..MaxCands }

\* udev = udev_new(); check(udev, ...); the scan that builds the list
EnumStart ==
  /\ pc = "enum_start"
  /\ \E udev \in BOOLEAN : check(udev, MsgUdev, "enum_loop")
  /\ UNCHANGED <<debugger_fd, hid_buffer, report_size, hid_stale, open_vars, call_vars,
                 life_vars>>
  /\ UNCHANGED <<parse_vars, enum_vars>>

\* one pass of udev_list_entry_foreach; the device's node stands for its path
EnumDevice ==
  /\ pc = "enum_loop"
  /\ entry <= Len(cands)
  /\ LET c == cands[entry]
         e == [path |-> entry,
               serial |-> OrUnknown(c.serial),
               manufacturer |-> OrUnknown(c.manufacturer),
               product |-> OrUnknown(c.product),
               vid |-> strtol16(c.idVendor),
               pid |-> strtol16(c.idProduct)]
     IN  IF c.parent /\ rsize < enum_size
           THEN /\ debuggers' = [debuggers EXCEPT ![rsize + 1] = e]
                /\ wlog' = Append(wlog, [slot |-> rsize, cand |-> entry,
                                         product |-> e.product])
                /\ rsize' = IF strstr(e.product, Marker) THEN rsize + 1 ELSE rsize
           ELSE UNCHANGED <<debuggers, wlog, rsize>>
  /\ entry' = entry + 1
  /\ UNCHANGED <<cands, enum_size, enum_ret>>
  /\ UNCHANGED <<session_vars, parse_vars>>

\* return rsize;
EnumReturn ==
  /\ pc = "enum_loop"
  /\ entry > Len(cands)
  /\ enum_ret' = <<rsize>>
  /\ pc' = "idle"
  /\ UNCHANGED <<cands, enum_size, debuggers, rsize, entry, wlog>>
  /\ UNCHANGED <<debugger_fd, hid_buffer, report_size, hid_stale, open_vars, call_vars,
                 exit_vars, life_vars>>
  /\ UNCHANGED parse_vars

-----------------------------------------------------------------------------
(* The specifications *)

\* the statics as the program starts, no call made yet
InitSession ==
  /\ debugger_fd = -1
  /\ hid_buffer = [k \in BufIndex |-> 0]
  /\ report_size = 0
  /\ hid_stale = BufIndex
  /\ pc = "idle"
  /\ dev_desc = <<>>
  /\ desc_size = 0
  /\ rpt_desc = [size |-> 0, value |-> <<>>]
  /\ cmd_data = <<>>
  /\ data_in = <<>>
  /\ req_size = 0
  /\ resp_size = 0
  /\ cmd = 0
  /\ res = 0
  /\ ret = NoValue
  /\ exit_msg = ""
  /\ exit_args = <<>>
  /\ io = <<>>
  /\ prev_longer = FALSE

\* the process's handles at its start, std the descriptors it was started
\* with, and b more calls of dbg_open, dbg_close, dbg_get_report_size to come
InitLife(std, b) ==
  /\ std_fds = std
  /\ fds = {}
  /\ olog = <<>>
  /\ closes = <<>>
  /\ got = <<>>
  /\ budget = b

\* dbg_enumerate not called
NoEnum ==
  /\ cands = <<>>
  /\ enum_size = 0
  /\ debuggers = <<>>
  /\ rsize = 0
  /\ entry = 1
  /\ enum_ret = NoValue
  /\ wlog = <<>>

\* the session left out, the process at p
NoSessionAt(p) ==
  /\ debugger_fd = -1
  /\ hid_buffer = <<>>
  /\ report_size = 0
  /\ hid_stale = {}
  /\ pc = p
  /\ dev_desc = <<>>
  /\ desc_size = 0
  /\ rpt_desc = [size |-> 0, value |-> <<>>]
  /\ cmd_data = <<>>
  /\ data_in = <<>>
  /\ req_size = 0
  /\ resp_size = 0
  /\ cmd = 0
  /\ res = 0
  /\ ret = NoValue
  /\ exit_msg = ""
  /\ exit_args = <<>>
  /\ io = <<>>
  /\ prev_longer = FALSE

\* SpecParse runs the parser alone, on its arguments
NoSession == NoSessionAt("parse")

\* the parser at its entry, on the descriptor built from its and lacking c bytes
ParserAt(its, c) ==
  /\ items = its
  /\ cut = c
  /\ data = SubSeq(Flatten(its), 1, Len(Flatten(its)) - c)
  /\ size = Len(Flatten(its)) - c
  /\ i = 0
  /\ count = U32(0)
  /\ input = U32(0)
  /\ output = U32(0)
  /\ heads = <<>>
  /\ pc_parse = "loop"
  /\ parse_ret = NoValue
  /\ parse_msg = ""

\* the parser at its entry, on bytes d built from no item list (cut is -1)
ParserOnBytes(d) ==
  /\ items = <<>>
  /\ cut = -1
  /\ data = d
  /\ size = Len(d)
  /\ i = 0
  /\ count = U32(0)
  /\ input = U32(0)
  /\ output = U32(0)
  /\ heads = <<>>
  /\ pc_parse = "loop"
  /\ parse_ret = NoValue
  /\ parse_msg = ""

InitParse ==
  /\ \/ \E its \in ItemSeqs \cup ShapedDescriptors \cup ProbeDescriptors :
          \E c \in Cuts(its) : ParserAt(its, c)
     \/ \E d \in RawDescriptors : ParserOnBytes(d)
  /\ NoSession
  /\ InitLife({0, 1, 2}, 0)
  /\ NoEnum

NextParse == ParseItem \/ ParseFinish

SpecParse == InitParse /\ [][NextParse]_vars

\* the parser on the descriptors of arbitrary bytes
InitScan ==
  /\ \E d \in RawDescriptors : ParserOnBytes(d)
  /\ NoSession
  /\ InitLife({0, 1, 2}, 0)
  /\ NoEnum

\* the parser is sequential code that keeps running: a step that can be taken
\* is taken
SpecScanFair == InitScan /\ [][NextParse]_vars /\ WF_vars(NextParse)

\* one device opened, then dbg_dap_cmd calls
Init ==
  /\ ParserAt(<<>>, 0)
  /\ InitSession
  /\ InitLife({0, 1, 2}, 1)
  /\ NoEnum

Next ==
  \/ DbgOpen
  \/ OpenDescSize
  \/ OpenDesc
  \/ OpenParse
  \/ DapCall
  \/ DapWrite
  \/ DapRead
  \/ DapCheck
  \/ DapCompare
  \/ DapReturn

Spec == Init /\ [][Next]_vars

\* the most calls of dbg_open, dbg_close and dbg_get_report_size in a run
MaxCalls == 3

\* the session's calls in any order; the process may have been started with
\* stdin closed, and then descriptor 0 is free
InitLife0 ==
  /\ ParserAt(<<>>, 0)
  /\ InitSession
  /\ \E std \in {{0, 1, 2}, {1, 2}} : InitLife(std, MaxCalls)
  /\ NoEnum

NextLife ==
  \/ DbgOpen
  \/ OpenDescSize
  \/ OpenDesc
  \/ OpenParse
  \/ DbgClose
  \/ DbgGetReportSize
  \/ LifeDapCall
  \/ DapWrite
  \/ DapRead
  \/ DapCheck
  \/ DapCompare
  \/ DapReturn

SpecLife == InitLife0 /\ [][NextLife]_vars

\* dbg_enumerate on a list of devices, with a capacity
InitEnum ==
  /\ ParserAt(<<>>, 0)
  /\ NoSessionAt("enum_start")
  /\ InitLife({0, 1, 2}, 0)
  /\ \E l \in CandidateLists, n \in 0..MaxCap :
       /\ cands = l
       /\ enum_size = n
       /\ debuggers = [k \in 1..n |-> <<>>]
  /\ rsize = 0
  /\ entry = 1
  /\ enum_ret = NoValue
  /\ wlog = <<>>

NextEnum == EnumStart \/ EnumDevice \/ EnumReturn

SpecEnum == InitEnum /\ [][NextEnum]_vars

-----------------------------------------------------------------------------
(* What a well-formed descriptor declares, read off the items it was built   *)
(* from (not off the bytes): the value of an item is its payload, little-    *)
(* endian; the Report Count in effect at an item is the value of the last    *)
(* Report Count item before it, 0 when there is none.                        *)

PayloadAt(it, k) == IF k <= Len(it.payload) THEN it.payload[k] ELSE 0

ItemValue(it) ==
  <<PayloadAt(it, 1) + 256 * PayloadAt(it, 2), PayloadAt(it, 3) + 256 * PayloadAt(it, 4)>>

IsReportCount(it) == it.hdr \in 148..151
IsInput(it) == it.hdr \in 128..131
IsOutput(it) == it.hdr \in 144..147

MaxOf(S) == CHOOSE m \in S : \A n \in S : n <= m

InEffectAt(its, k) ==
  LET S == { m \in 1..(k - 1) : IsReportCount(its[m]) }
  IN  IF S = {} THEN <<0, 0>> ELSE ItemValue(its[MaxOf(S)])

DeclaredInput(its) ==
  LET S == { k \in 1..Len(its) : IsInput(its[k]) }
  IN  IF S = {} THEN <<0, 0>> ELSE InEffectAt(its, MaxOf(S))

DeclaredOutput(its) ==
  LET S == { k \in 1..Len(its) : IsOutput(its[k]) }
  IN  IF S = {} THEN <<0, 0>> ELSE InEffectAt(its, MaxOf(S))

Supported == { <<64, 0>>, <<512, 0>>, <<1024, 0>> }

WellFormed == cut = 0

ParseEnded == pc_parse # "loop"

\* the payload length each size code stands for
PayloadLen(code) == CASE code = 0 -> 0 [] code = 1 -> 1 [] code = 2 -> 2 [] code = 3 -> 4

-----------------------------------------------------------------------------
(* The claims about parse_hid_report_desc, under SpecParse *)

\* C1: a well-formed descriptor whose Report Count in effect at the last Input
\* item equals the one in effect at the last Output item, that value s being
\* 64, 512 or 1024, makes the parser return s, whatever ignored items it holds.
C1_MatchingSupportedReturnsSize ==
  (ParseEnded /\ WellFormed
     /\ DeclaredInput(items) = DeclaredOutput(items)
     /\ DeclaredInput(items) \in Supported)
  => (pc_parse = "returned" /\ parse_msg = "" /\ parse_ret = <<DeclaredInput(items)[1]>>)

\* a descriptor of four items, an ignored one between the Report Count and the
\* Input item, that returned 512
C1_Witness ==
  /\ pc_parse = "returned"
  /\ parse_ret = <<512>>
  /\ Len(items) = 4
  /\ cut = 0
  /\ items[1] = ReportCount2(0, 2)
  /\ items[2] \in IgnoredItems
  /\ IsInput(items[3])
  /\ IsOutput(items[4])

\* C2: when the input size and the output size the scan ended with differ, the
\* parser ends in the size-mismatch error and returns nothing, also when one of
\* the two is a supported size or only one direction is declared.
C2_MismatchIsError ==
  (ParseEnded
     /\ (input # output \/ (WellFormed /\ DeclaredInput(items) # DeclaredOutput(items))))
  => (pc_parse = "exited" /\ parse_msg = MsgMismatch /\ parse_ret = NoValue)

\* only an Input item is declared, at a supported size
C2_Witness ==
  /\ pc_parse = "exited"
  /\ parse_msg = MsgMismatch
  /\ cut = 0
  /\ DeclaredInput(items) = <<64, 0>>
  /\ \A k \in 1..Len(items) : ~IsOutput(items[k])
  /\ output = <<0, 0>>

\* C3: when the input size and the output size are equal and the common value
\* is none of 64, 512, 1024, the parser ends in the unsupported-size error and
\* returns nothing; a descriptor with no Input and no Output item resolves to 0.
C3_UnsupportedIsError ==
  (ParseEnded
     /\ (\/ (input = output /\ input \notin Supported)
         \/ (WellFormed /\ DeclaredInput(items) = DeclaredOutput(items)
                        /\ DeclaredInput(items) \notin Supported)))
  => (pc_parse = "exited" /\ parse_msg = MsgUnsupported /\ parse_ret = NoValue)

\* both directions declared at 32
C3_Witness ==
  /\ pc_parse = "exited"
  /\ parse_msg = MsgUnsupported
  /\ cut = 0
  /\ DeclaredInput(items) = <<32, 0>>
  /\ DeclaredOutput(items) = <<32, 0>>
  /\ input = <<32, 0>>

\* C4: every pass of the scan moves the position past the header and the
\* payload its size code stands for (0, 1, 2 bytes, and 4 bytes for code 3),
\* and a Report Count with size code 3 sets the count to
\* b0 + 256*b1 + 65536*b2 + 16777216*b3 of its four payload bytes.
C4_SizeCode3IsFourBytes ==
  [][ (pc_parse = "loop" /\ i < size) =>
        LET hdr == DataAt(data, i)
        IN  /\ i' = i + 1 + PayloadLen(hdr % 4)
            /\ (hdr = 151 =>
                  count' = << DataAt(data, i + 1) + 256 * DataAt(data, i + 2),
                              DataAt(data, i + 3) + 256 * DataAt(data, i + 4) >>) ]_vars

\* a 4-byte ignored item then a 4-byte Report Count with b3 = 255 and b2 = 128,
\* the count decoded and the next header found at offset 10
C4_Witness ==
  /\ heads = <<0, 5>>
  /\ i = 10
  /\ cut = 0
  /\ items[2] = ReportCount4(1, 64, 128, 255)
  /\ count = <<1 + 256 * 64, 128 + 256 * 255>>

-----------------------------------------------------------------------------
(* The claims about dbg_dap_cmd, under Spec.  io holds the current call's    *)
(* uses of hid_buffer: io[1] the device write, io[2] the device read, io[3]  *)
(* the copy-out.                                                             *)

DeviceUses == SelectSeq(io, LAMBDA u : u.op \in {"write", "read"})

WriteDone == Len(io) >= 1 /\ io[1].op = "write"

ReadDone == Len(io) >= 2 /\ io[2].op = "read"

\* the device replied with r >= 1 bytes, the first not the request's first
MismatchedReply == ReadDone /\ io[2].res >= 1 /\ io[2].bytes[1] # data_in[1]

EmptyReply == ReadDone /\ io[2].res = 0

Returned == pc = "idle" /\ ret # NoValue

MinOf(a, b) == IF a < b THEN a ELSE b

\* C5: the frame handed to the device write is report_size + 1 bytes: 0x00,
\* then the request's bytes in order, then 0xFF up to the end.
C5_FrameIsPaddedRequest ==
  (WriteDone /\ 1 <= req_size /\ req_size <= report_size)
  => /\ io[1].len = report_size + 1
     /\ Len(io[1].bytes) = report_size + 1
     /\ io[1].bytes[1] = 0
     /\ \A k \in 1..req_size : io[1].bytes[k + 1] = data_in[k]
     /\ \A k \in (req_size + 1)..report_size : io[1].bytes[k + 1] = 255

\* the request 0x02 0xAA 0xBB on a session of size 64: a frame of 65 bytes
C5_Witness ==
  /\ WriteDone
  /\ report_size = 64
  /\ SubSeq(data_in, 1, req_size) = <<2, 170, 187>>
  /\ Len(io[1].bytes) = 65
  /\ SubSeq(io[1].bytes, 1, 5) = <<0, 2, 170, 187, 255>>
  /\ io[1].bytes[65] = 255

\* C6: a reply whose first byte is not the request's first byte ends the call
\* in the invalid-response error, with both identifiers; nothing is returned
\* and the caller's buffer stays as it was passed in.
C6_WrongIdentifierIsError ==
  MismatchedReply
  => /\ cmd_data = data_in
     /\ ret = NoValue
     /\ \/ pc \in {"dap_check", "dap_compare"}
        \/ /\ pc = "exited"
           /\ exit_msg = MsgInvalid
           /\ exit_args = <<data_in[1], io[2].bytes[1]>>

\* a whole frame came back with 0xFF for the identifier 0x02, capacity
\* MaxShort - 1
C6_Witness ==
  /\ MismatchedReply
  /\ pc = "exited"
  /\ exit_args = <<2, 255>>
  /\ io[2].res = report_size + 1
  /\ resp_size = MaxShort - 1

\* C7: a read of zero bytes ends the call in the empty-response error, before
\* any comparison of identifiers; nothing is copied out or returned.
C7_EmptyReplyIsError ==
  EmptyReply
  => /\ cmd_data = data_in
     /\ ret = NoValue
     /\ \/ pc = "dap_check"
        \/ pc = "exited" /\ exit_msg = MsgEmpty

\* the request's identifier is 0x00, which is what hid_buffer[0] still holds
C7_Witness ==
  /\ EmptyReply
  /\ pc = "exited"
  /\ exit_msg = MsgEmpty
  /\ cmd = 0
  /\ hid_buffer[0] = cmd

\* C8: a call that returns after a read of r >= 1 bytes returns r - 1, has
\* written response bytes 1 .. min(resp_size, r - 1) to the start of the
\* caller's buffer and no other byte of it; the returned length exceeds
\* resp_size exactly when payload bytes were left out.
C8_ReturnsPayloadLength ==
  Returned
  => LET r == io[2].res
         m == MinOf(resp_size, r - 1)
     IN  /\ r >= 1
         /\ ret = <<r - 1>>
         /\ Len(cmd_data) = Len(data_in)
         /\ \A k \in 1..Len(cmd_data) :
              cmd_data[k] = IF k <= m THEN io[2].bytes[k + 1] ELSE data_in[k]
         /\ (ret[1] > resp_size) <=> (m < r - 1)

\* capacity MaxShort - 1, a payload of MaxShort bytes: truncated, the full length returned
C8_Witness ==
  /\ Returned
  /\ resp_size = MaxShort - 1
  /\ ret = <<MaxShort>>
  /\ cmd_data[1] = 16 /\ cmd_data[2] = 17
  /\ Len(data_in) >= 3 /\ cmd_data[3] = data_in[3]

\* C9: no byte that hid_buffer held before the current call is handed to the
\* device or copied out to the caller, and the returned length is that of the
\* current reply.
C9_NoBytesFromEarlierCalls ==
  /\ \A k \in 1..Len(io) : io[k].stale = {}
  /\ Returned => ret = <<io[2].res - 1>>
  /\ Returned => io[3].bytes = SubSeq(io[2].bytes, 2, 1 + MinOf(resp_size, io[2].res - 1))

\* after a call with a longer request: a 1-byte request, a reply shorter than
\* the frame, more capacity than payload
C9_Witness ==
  /\ Returned
  /\ prev_longer
  /\ req_size = 1
  /\ io[2].res = MaxShort + 1
  /\ io[2].res < report_size + 1
  /\ resp_size = report_size

\* C10: a call makes one device write, then at most one device read, and no
\* other; a failed write is followed by no read; after a failed or empty read
\* or a wrong identifier the process has exited without a result.
C10_OneWriteThenOneRead ==
  /\ Len(DeviceUses) <= 2
  /\ Len(DeviceUses) >= 1 => DeviceUses[1].op = "write"
  /\ Len(DeviceUses) = 2 => DeviceUses[2].op = "read" /\ DeviceUses[1].res >= 0
  /\ pc \in {"dap_read", "dap_check", "dap_compare", "dap_copy"} => Len(DeviceUses) >= 1
  /\ (WriteDone /\ io[1].res < 0) => (pc = "exited" /\ exit_msg = MsgWrite /\ Len(io) = 1)
  /\ (ReadDone /\ io[2].res < 0) => (pc = "exited" /\ exit_msg = MsgRead)
  /\ (ReadDone /\ (io[2].res <= 0 \/ MismatchedReply))
       => pc \in {"dap_check", "dap_compare", "exited"}
  /\ pc = "exited" => ret = NoValue
  /\ Returned => Len(DeviceUses) = 2

\* the write failed: one write, no read, the process exited
C10_Witness ==
  /\ pc = "exited"
  /\ exit_msg = MsgWrite
  /\ Len(DeviceUses) = 1
  /\ io[1].res < 0

-----------------------------------------------------------------------------
(* The claims about dbg_open, dbg_close and dbg_get_report_size, under       *)
(* SpecLife.  olog holds the steps of the current dbg_open call.             *)

OpenOrder == <<"open", "size", "desc", "parse">>

\* a step that failed: the parse returned nothing, any other step returned
\* a negative value
StepFailed(st) == IF st.op = "parse" THEN st.res = NoValue ELSE st.res < 0

AllStepsSucceeded(log) ==
  Len(log) = Len(OpenOrder) /\ \A k \in 1..Len(log) : ~StepFailed(log[k])

\* C11: dbg_open makes its steps in the order handle acquisition, size query,
\* content query, parse; the content query is made with the size the size
\* query reported and the parse runs over that many bytes; a failed step is
\* the last one and ends the process; report_size is assigned only by a
\* dbg_open whose four steps all succeeded, and keeps its value otherwise.
C11_OpenStepsInOrder ==
  /\ [](/\ Len(olog) <= Len(OpenOrder)
        /\ \A k \in 1..Len(olog) : olog[k].op = OpenOrder[k]
        /\ \A k \in 1..(Len(olog) - 1) : ~StepFailed(olog[k])
        /\ (olog # <<>> /\ StepFailed(olog[Len(olog)])) => pc = "exited"
        /\ Len(olog) >= 2 => olog[2].arg = olog[1].res
        /\ Len(olog) >= 3 => olog[3].arg = olog[2].res
        /\ pc = "open_parse" => Len(rpt_desc.value) = olog[2].res
        /\ Len(olog) >= 4 => olog[4].arg = olog[2].res
        /\ (pc = "idle" /\ AllStepsSucceeded(olog)) => <<report_size>> = olog[4].res)
  /\ [][ (\/ report_size' # report_size
          \/ pc = "open_parse" /\ pc' = "idle")
         => /\ AllStepsSucceeded(olog')
            /\ Len(olog) = 3
            /\ <<report_size'>> = olog'[4].res ]_vars

\* a second dbg_open, on a device whose descriptor declares 32: it fails at
\* the parse, the process exits and the size of the first open (64) stays
C11_Witness ==
  /\ pc = "exited"
  /\ Len(olog) = 4
  /\ olog[2].res = 6
  /\ olog[3].arg = 6
  /\ olog[4] = Step("parse", 6, NoValue)
  /\ exit_msg = MsgUnsupported
  /\ report_size = 64

\* C12: every dbg_close call issues close() exactly when the session holds the
\* handle debugger_fd names: never on a session that was never opened or is
\* already closed, once on an open session.  (dbg_close has no path to an
\* error exit: the result of close() is not looked at.)
C12_CloseReleasesOnlyHeldHandle ==
  \A k \in 1..Len(closes) : closes[k].issued <=> closes[k].held

-----------------------------------------------------------------------------
(* More claims about parse_hid_report_desc, under SpecParse *)

\* the descriptor ends before the payload its last item header declares
Truncated == cut > 0

\* C13: on a truncated descriptor the parser ends in the size-mismatch or the
\* unsupported-size error and returns no size.
C13_TruncatedIsError ==
  (ParseEnded /\ Truncated)
  => /\ pc_parse = "exited"
     /\ parse_msg \in {MsgMismatch, MsgUnsupported}
     /\ parse_ret = NoValue

-----------------------------------------------------------------------------
(* The claim about dbg_enumerate, under SpecEnum.  wlog holds the writes to  *)
(* debuggers[]; a device's path is its position in discovery order.          *)

\* the devices to accept: those with a USB parent whose product string was
\* built around the marker, by position, in discovery order
Acceptable == { k \in 1..Len(cands) : cands[k].parent /\ cands[k].marked }

\* the n-th position of S, counted from 1 in ascending order
RECURSIVE NthOf(_, _)
NthOf(S, n) ==
  LET least == CHOOSE m \in S : \A o \in S : m <= o
  IN  IF n = 1 THEN least ELSE NthOf(S \ {least}, n - 1)

EnumReturned == pc = "idle" /\ enum_ret # NoValue

\* C14: dbg_enumerate returns a count n with 0 <= n <= size; the first n
\* entries of debuggers[] are the first n acceptable devices, in discovery
\* order, each with its own product string; a device with no product attribute
\* is written as "<unknown>" and is in none of those entries; after a rejected
\* device the next write goes to the same slot, after an accepted one to the
\* next slot; no slot at or past size is written.
C14_EnumerateKeepsMarkedDevices ==
  /\ \A k \in 1..Len(wlog) :
       /\ 0 <= wlog[k].slot /\ wlog[k].slot < enum_size
       /\ cands[wlog[k].cand].parent
       /\ cands[wlog[k].cand].product = <<>> => wlog[k].product = Unknown
       /\ k < Len(wlog) =>
            /\ wlog[k].cand < wlog[k + 1].cand
            /\ wlog[k + 1].slot =
                 IF cands[wlog[k].cand].marked THEN wlog[k].slot + 1 ELSE wlog[k].slot
  /\ EnumReturned =>
       LET n == enum_ret[1]
       IN  /\ 0 <= n /\ n <= enum_size
           /\ n = MinOf(enum_size, Cardinality(Acceptable))
           /\ \A k \in 1..n :
                /\ debuggers[k].path = NthOf(Acceptable, k)
                /\ <<debuggers[k].product>> = cands[debuggers[k].path].product
                /\ debuggers[k].vid = 1003
           /\ \A k \in 1..n : \A j \in 1..(k - 1) : debuggers[j].path < debuggers[k].path

\* three devices, capacity 2: the first accepted, the second (no product
\* attribute) written to slot 1 and rejected, the third written over it
C14_Witness ==
  /\ EnumReturned
  /\ enum_ret = <<2>>
  /\ enum_size = 2
  /\ Len(wlog) = 3
  /\ wlog[2] = [slot |-> 1, cand |-> 2, product |-> Unknown]
  /\ wlog[3].slot = 1
  /\ debuggers[2].path = 3

\* the value of the n payload bytes at pos, little-endian; a byte past the
\* payload counts 0
PayloadByte(d, pos, n, k) == IF k < n THEN DataAt(d, pos + k) ELSE 0

LittleEndian(d, pos, n) ==
  << PayloadByte(d, pos, n, 0) + 256 * PayloadByte(d, pos, n, 1),
     PayloadByte(d, pos, n, 2) + 256 * PayloadByte(d, pos, n, 3) >>

\* C15: count, input and output start at 0; a pass over a Report Count header
\* (type 1, tag 9) sets count to the value of its payload, whatever count was
\* (0 for size code 0), and leaves input and output; a pass over an Input
\* (type 0, tag 8) or Output (type 0, tag 9) header copies count to input or
\* output and leaves the other two; a pass over any other header leaves all
\* three.  So a well-formed descriptor ends with the counts in effect at its
\* last Input and last Output item, 0 where no Report Count came before.
C15_CountFrameEffects ==
  /\ [](heads = <<>> => (count = <<0, 0>> /\ input = <<0, 0>> /\ output = <<0, 0>>))
  /\ [][ (pc_parse = "loop" /\ i < size) =>
           LET hdr  == DataAt(data, i)
               type == (hdr \div 4) % 4
               tag  == hdr \div 16
           IN  CASE type = 1 /\ tag = 9 ->
                      /\ count' = LittleEndian(data, i + 1, PayloadLen(hdr % 4))
                      /\ input' = input /\ output' = output
                 [] type = 0 /\ tag = 8 ->
                      /\ input' = count
                      /\ count' = count /\ output' = output
                 [] type = 0 /\ tag = 9 ->
                      /\ output' = count
                      /\ count' = count /\ input' = input
                 [] OTHER ->
                      count' = count /\ input' = input /\ output' = output ]_vars
  /\ []((~(i < size) /\ WellFormed)
          => (input = DeclaredInput(items) /\ output = DeclaredOutput(items)))

\* a Report Count of 64, then one of 512: the count is 512, not 64 | 512
C15_Witness ==
  /\ cut = 0
  /\ Len(items) = 3
  /\ items[1] = ReportCount1(64)
  /\ items[2] = ReportCount2(0, 2)
  /\ IsInput(items[3])
  /\ heads = <<0, 2, 5>>
  /\ count = <<512, 0>>
  /\ input = <<512, 0>>
  /\ output = <<0, 0>>

\* C16: on every descriptor, the empty one and arbitrary bytes included, each
\* pass of the scan reads the byte at the position as a header and moves the
\* position forward by 1 to 5; the positions read as headers increase strictly
\* and lie below size; the scan ends, and the parser then is in exactly one of
\* three outcomes: a size returned, the size-mismatch error, the
\* unsupported-size error; nothing runs after that.
C16_ScanTerminates ==
  /\ [][ (pc_parse = "loop" /\ i < size)
           => /\ i + 1 <= i' /\ i' <= i + 5
              /\ heads' = Append(heads, i) ]_vars
  /\ [](/\ \A k \in 1..Len(heads) : 0 <= heads[k] /\ heads[k] < size
        /\ \A k \in 1..(Len(heads) - 1) : heads[k] < heads[k + 1]
        /\ heads # <<>> => heads[Len(heads)] < i)
  /\ <>ParseEnded
  /\ [](ParseEnded
          => /\ ~(i < size)
             /\ \/ pc_parse = "returned" /\ parse_ret # NoValue /\ parse_msg = ""
                \/ pc_parse = "exited" /\ parse_ret = NoValue /\ parse_msg = MsgMismatch
                \/ pc_parse = "exited" /\ parse_ret = NoValue /\ parse_msg = MsgUnsupported)
  /\ [][~ParseEnded]_parse_vars

\* three arbitrary bytes FF 97 40: the first is read as a header with a 4-byte
\* payload, the scan ends past the end, no later byte is read as a header
C16_Witness ==
  /\ cut = -1
  /\ data = <<255, 151, 64>>
  /\ heads = <<0>>
  /\ i = 5
  /\ pc_parse = "exited"
  /\ parse_msg = MsgUnsupported

-----------------------------------------------------------------------------
(* More claims about the session *)

\* the indices of hid_buffer written since the current dbg_dap_cmd call began
\* (by the fill, the report ID, the request, the device read)
WrittenInCall == BufIndex \ hid_stale

\* C17: in a dbg_dap_cmd call on a session of packet size P, with a request of
\* 1 .. P bytes, every index of hid_buffer that is filled or copied into lies
\* in 0 .. P, and P + 1 is at most the buffer's DBG_MAX_EP_SIZE + 1 bytes; the
\* device write hands over P + 1 bytes, the device read asks for P + 1 and
\* stores r <= P + 1; the copy-out takes at most r - 1 bytes, from index 1 on,
\* all of them stored by that read.
C17_BufferIndicesInFrame ==
  /\ report_size + 1 <= Cardinality(DOMAIN hid_buffer)
  /\ Cardinality(DOMAIN hid_buffer) = DBG_MAX_EP_SIZE + 1
  /\ WrittenInCall \subseteq 0..report_size
  /\ io # <<>> => (1 <= req_size /\ req_size <= report_size)
  /\ \A k \in 1..Len(io) :
       LET u == io[k]
       IN  CASE u.op = "write" -> u.len = report_size + 1 /\ Len(u.bytes) = u.len
             [] u.op = "read"  -> u.len = report_size + 1 /\ Len(u.bytes) <= u.len
                                  /\ (u.res >= 0 => u.res = Len(u.bytes))
             [] u.op = "copy"  -> /\ 0 <= u.len /\ u.len <= io[2].res - 1
                                  /\ u.len <= report_size
                                  /\ \A j \in 1..u.len : j \in 0..(io[2].res - 1)
                                  /\ u.bytes = SubSeq(io[2].bytes, 2, u.len + 1)

\* packet size 64, a request of 64 bytes, a reply of 65 bytes and capacity 64:
\* index 64, the last of the frame, is copied into, written, read and copied out
C17_Witness ==
  /\ Returned
  /\ report_size = 64
  /\ req_size = 64
  /\ WrittenInCall = 0..64
  /\ io[1].len = 65
  /\ io[2].res = 65
  /\ io[3].len = 64

\* the steps of a dbg_dap_cmd call
DapPcs == {"dap_write", "dap_read", "dap_check", "dap_compare", "dap_copy"}

\* C18: under any sequence of dbg_open, dbg_dap_cmd, dbg_get_report_size and
\* dbg_close calls, report_size is 0, 64, 512 or 1024; it is 0 at the start and
\* never 0 again once an open has succeeded; dbg_get_report_size returns it
\* and changes none of debugger_fd, hid_buffer, report_size or the handles
\* held; only the last step of dbg_open changes it: no step of dbg_dap_cmd
\* and no dbg_close does.
C18_ReportSizeIsSupportedOrZero ==
  /\ [](report_size \in {0, 64, 512, 1024})
  /\ []((pc = "idle" /\ AllStepsSucceeded(olog)) => report_size # 0)
  /\ [][report_size # 0 => report_size' # 0]_vars
  /\ [][ Len(got') > Len(got)
           => /\ got' = Append(got, report_size)
              /\ UNCHANGED <<debugger_fd, hid_buffer, report_size, fds, pc>> ]_vars
  /\ [][ report_size' # report_size => (pc = "open_parse" /\ pc' = "idle") ]_vars
  /\ [][ (pc \in DapPcs \/ pc' \in DapPcs \/ Len(closes') > Len(closes))
           => report_size' = report_size ]_vars

\* a device of packet size 64 opened, a call made and answered, the session
\* closed, and dbg_get_report_size still returning 64
C18_Witness ==
  /\ pc = "idle"
  /\ ret # NoValue
  /\ Len(closes) = 1
  /\ closes[1].held
  /\ got = <<64>>
  /\ report_size = 64
  /\ debugger_fd \notin fds

====
